---- MODULE Spec2Model ----
(***************************************************************************)
(* Lockbox server: the request handlers of LockboxServiceHandler and the   *)
(* fanout workers of UpdateQueuer, over the namespaced key-value store of  *)
(* DBManagerServer.                                                        *)
(***************************************************************************)
EXTENDS Integers, Sequences, FiniteSets, TLC

\* ------------------------------------------------------------------ bounds
MaxOps == 4          \* handler calls made one after another
MaxCalls == 2        \* handler invocations in flight together
MaxWorkers == 2      \* fanout threads created by Increment
MaxAttempts == 2     \* failed turns of the allocation loop that are counted

\* ------------------------------------------------------------ value sets
Emails == {"u1", "u2"}
TopDirs == {1, 2}
GUIDs == {"g1", "g2"}
Payloads == {"a", "b"}
Timestamps == {1, 2}
Calls == 1..MaxCalls
Workers == 1..MaxWorkers

\* Marks a key that has no record in a namespace whose values may be empty.
NoKey == "<nokey>"

\* The value RegisterRelativePath writes to reserve a GUID.
Reserved == "none"

\* The lock holder value of a free mutex.
Free == 0

VARIABLES
  \* --- the store, one variable per ServerDB namespace
  email_user,      \* EMAIL_USER: email -> persisted UserID, "" when absent
  relpath,         \* TOP_DIR_RELPATH: top_dir -> GUID -> HEAD, "" when absent
  relpath_lock,    \* TOP_DIR_RELPATH_LOCK: top_dir -> GUID -> lock status
  fptrs,           \* TOP_DIR_FPTRS: top_dir -> digest -> PREV, NoKey when absent
  data,            \* TOP_DIR_DATA: top_dir -> digest -> blob, NoKey when absent
  queue,           \* UPDATE_ACTION_QUEUE: the set of pending tuple keys
  update_log,      \* UPDATE_ACTION_LOG: the set of logged tuple keys
  device_sync,     \* DEVICE_SYNC: device -> mailbox (the comma-joined tuples)
  next_user_id,    \* the UserID counter behind GetNextUserID
  \* --- handler calls made one after another
  nops,            \* number of calls made
  last,            \* the call that returned last
  streak,          \* 2 when the call before it was the same call, else 1
  called,          \* emails RegisterUser has been called with
  issued,          \* UserIDs RegisterUser has returned
  granted,         \* per path: AcquireLock calls that returned acquired=true
                   \* since the last ReleaseLock of the path
  uploaded,        \* <<top_dir, rel_path, digest>> of the Uploads that returned
  \* --- handler calls in flight together
  call,            \* per call: position and locals
  mutex,           \* get_mutex(TOP_DIR_META, top_dir): holder or Free
  \* --- the fanout engine
  threads_,        \* UpdateQueuer::threads_
  wk,              \* per worker: position in Run and its locals
  interrupted,     \* per worker: interruption requested
  db_mutex,        \* Sync::db_mutex: holder or Free
  aborted,         \* a CHECK failed: the process is gone, the worker that
                   \* failed it stays at the CHECK
  claims,          \* per tuple: how many times a worker selected it
  enqueued,        \* the tuples that were ever pending
  appended,        \* <<tuple, device>> of the mailbox Puts workers have made
  ndec             \* number of Decrement calls made

store_vars == <<email_user, relpath, relpath_lock, fptrs, data, next_user_id>>
fan_store_vars == <<queue, update_log, device_sync>>
seq_vars == <<nops, last, streak, called, issued, granted, uploaded>>
conc_vars == <<call, mutex>>
fan_vars == <<threads_, wk, interrupted, db_mutex, aborted, claims, enqueued,
              appended, ndec>>
vars == <<store_vars, fan_store_vars, seq_vars, conc_vars, fan_vars>>

\* ------------------------------------------------- external primitives

\* base::IntToString
IntToString(n) == ToString(n)

\* base::SHA1HashString: collision free on the payloads of the model.
SHA1HashString(p) == "sha1:" \o p

Digests == {SHA1HashString(p) : p \in Payloads}

\* RemotePackage::write into the memory buffer: the whole package is
\* serialized, not only the payload.
Serialize(td, rp, p) == <<td, rp, p>>

\* DBManagerServer::Get on a namespace where "" stands for no record.
Get(ns, key) == ns[key]

\* DBManagerServer::Get on a namespace with NoKey: an absent key reads empty.
GetOrEmpty(ns, key) == IF ns[key] = NoKey THEN "" ELSE ns[key]

\* DBManagerServer::Put
Put(ns, key, value) == [ns EXCEPT ![key] = value]

\* DBManagerServer::GetNextUserID: the next value of a monotonic counter.
GetNextUserID == next_user_id

\* ------------------------------------------------------- initial state

NoCall == [op |-> "none", td |-> 0, key |-> "", ret |-> "", uid |-> 0,
           digest |-> ""]

IdleCall == [pc |-> "idle", td |-> 0, rp |-> "", payload |-> "",
             previous |-> "", overwrote |-> "", ret |-> "",
             contended |-> FALSE, attempts |-> 0, email |-> "", uid |-> 0]

NoTuple == [ts |-> 0, td |-> 0, rp |-> "", hash |-> ""]

OffWorker == [pc |-> "off", tuple |-> NoTuple, users |-> <<>>,
              devices |-> <<>>, updates |-> <<>>]

\* TOP_DIR_META "EDITORS" of each top-dir and USER_DEVICE of each editor:
\* u1 and u2 edit top-dir 1, u1 alone edits top-dir 2; u1 owns device 1, u2
\* owns devices 2 and 3.
Editors == [td \in TopDirs |-> IF td = 1 THEN <<"u1", "u2">> ELSE <<"u1">>]
UserDevice == [u \in Emails |-> IF u = "u1" THEN <<1>> ELSE <<2, 3>>]
Devices == {1, 2, 3}

\* The top-dirs named by pending tuples: top-dir 3 has no EDITORS record.
QueuedTopDirs == TopDirs \cup {3}

TupleUniverse == [ts : Timestamps, td : QueuedTopDirs, rp : {"g1"},
                  hash : {SHA1HashString("a")}]

StoreInit ==
  /\ email_user = [e \in Emails |-> ""]
  /\ relpath = [td \in TopDirs |-> [g \in GUIDs |-> ""]]
  /\ relpath_lock = [td \in TopDirs |-> [g \in GUIDs |-> ""]]
  /\ fptrs = [td \in TopDirs |-> [d \in Digests |-> NoKey]]
  /\ data = [td \in TopDirs |-> [d \in Digests |-> NoKey]]
  /\ next_user_id = 1
  /\ update_log = {}
  /\ device_sync = [d \in Devices |-> <<>>]

SeqInit ==
  /\ nops = 0
  /\ last = NoCall
  /\ streak = 1
  /\ called = {}
  /\ issued = {}
  /\ granted = [td \in TopDirs |-> [g \in GUIDs |-> 0]]
  /\ uploaded = {}

ConcInit ==
  /\ call = [c \in Calls |-> IdleCall]
  /\ mutex = [td \in TopDirs |-> Free]

FanInit ==
  /\ threads_ = <<>>
  /\ wk = [w \in Workers |-> OffWorker]
  /\ interrupted = [w \in Workers |-> FALSE]
  /\ db_mutex = Free
  /\ aborted = FALSE
  /\ claims = [t \in TupleUniverse |-> 0]
  /\ enqueued = queue
  /\ appended = {}
  /\ ndec = 0

Init ==
  /\ StoreInit
  /\ queue = {}
  /\ SeqInit
  /\ ConcInit
  /\ FanInit

\* ------------------------------------- handlers, one call after another

Returned(r) ==
  /\ nops < MaxOps
  /\ nops' = nops + 1
  /\ last' = r
  /\ streak' = IF r.op = last.op /\ r.td = last.td /\ r.key = last.key
                THEN 2 ELSE 1

AlreadyRegistered_Never(value) == FALSE

\* RegisterUser: the test of the value read from EMAIL_USER.
AlreadyRegistered(value) == value # ""

\* LockboxServiceHandler::RegisterUser
RegisterUser(email) ==
  LET value == Get(email_user, email) IN
  /\ called' = called \cup {email}
  /\ IF AlreadyRegistered(value)
       THEN /\ Returned([NoCall EXCEPT !.op = "RegisterUser", !.key = email,
                                       !.uid = -1])
            /\ UNCHANGED <<email_user, next_user_id, issued>>
       ELSE LET uid == GetNextUserID IN
            /\ next_user_id' = next_user_id + 1
            /\ email_user' = Put(email_user, email, IntToString(uid))
            /\ issued' = issued \cup {uid}
            /\ Returned([NoCall EXCEPT !.op = "RegisterUser", !.key = email,
                                       !.uid = uid])
  /\ UNCHANGED <<relpath, relpath_lock, fptrs, data, fan_store_vars,
                 granted, uploaded, conc_vars, fan_vars>>

\* LockboxServiceHandler::AcquireLockRelPath
AcquireLockRelPath(td, rp) ==
  LET lock_status == Get(relpath_lock[td], rp) IN
  /\ granted' = [granted EXCEPT ![td][rp] = @ + 1]
  /\ Returned([NoCall EXCEPT !.op = "AcquireLock", !.td = td, !.key = rp,
                             !.ret = "acquired"])
  /\ UNCHANGED <<store_vars, fan_store_vars, called, issued, uploaded,
                 conc_vars, fan_vars>>

ReleaseOutcome_HeldOnly(td, rp) ==
  IF granted[td][rp] = 0 THEN "error" ELSE "ok"

\* ReleaseLockRelPath: the body is empty, the call always returns normally.
ReleaseOutcome(td, rp) == "ok"

\* LockboxServiceHandler::ReleaseLockRelPath
ReleaseLockRelPath(td, rp) ==
  /\ granted' = [granted EXCEPT ![td][rp] = 0]
  /\ Returned([NoCall EXCEPT !.op = "ReleaseLock", !.td = td, !.key = rp,
                             !.ret = ReleaseOutcome(td, rp)])
  /\ UNCHANGED <<store_vars, fan_store_vars, called, issued, uploaded,
                 conc_vars, fan_vars>>

PreviousHead_First(td, rp) == ""

\* UploadPackage: the HEAD read into |previous| before HEAD is overwritten.
PreviousHead(td, rp) == Get(relpath[td], rp)

\* LockboxServiceHandler::UploadPackage
UploadPackage(td, rp, p) ==
  LET hash_of_prot == SHA1HashString(p)
      mem == Serialize(td, rp, p)
      previous == PreviousHead(td, rp)
  IN
  /\ relpath' = [relpath EXCEPT ![td] = Put(@, rp, hash_of_prot)]
  /\ fptrs' = [fptrs EXCEPT ![td] = Put(@, hash_of_prot, previous)]
  /\ data' = [data EXCEPT ![td] = Put(@, hash_of_prot, mem)]
  /\ uploaded' = uploaded \cup {<<td, rp, hash_of_prot>>}
  /\ Returned([NoCall EXCEPT !.op = "Upload", !.td = td, !.key = rp,
                             !.ret = "size", !.digest = hash_of_prot])
  /\ UNCHANGED <<email_user, relpath_lock, next_user_id, fan_store_vars,
                 called, issued, granted, conc_vars, fan_vars>>

\* LockboxServiceHandler::RegisterRelativePath, run without interruption;
\* the GUID generator may return any candidate, also one already present.
RegisterRelativePath(td) ==
  \E rel_path_id \in GUIDs :
    /\ Get(relpath[td], rel_path_id) = ""
    /\ relpath' = [relpath EXCEPT ![td] = Put(@, rel_path_id, Reserved)]
    /\ Returned([NoCall EXCEPT !.op = "RegisterRelativePath", !.td = td,
                               !.ret = rel_path_id])
    /\ UNCHANGED <<email_user, relpath_lock, fptrs, data, next_user_id,
                   fan_store_vars, called, issued, granted, uploaded,
                   conc_vars, fan_vars>>

Next ==
  \/ \E e \in Emails : RegisterUser(e)
  \/ \E td \in TopDirs : RegisterRelativePath(td)
  \/ \E td \in TopDirs, rp \in GUIDs : AcquireLockRelPath(td, rp)
  \/ \E td \in TopDirs, rp \in GUIDs : ReleaseLockRelPath(td, rp)
  \/ \E td \in TopDirs, rp \in GUIDs, p \in Payloads : UploadPackage(td, rp, p)

Spec == Init /\ [][Next]_vars

\* ------------------------------------------ handlers, calls in flight together

MutexAvailable_Always(td) == TRUE

\* ScopedMutexLock on get_mutex(options): the caller proceeds once the mutex
\* of the top-dir is free.
MutexAvailable(td) == mutex[td] = Free

\* RegisterRelativePath: the call arrives for a top-dir.
RRPCall(c, td) ==
  /\ call[c].pc = "idle"
  /\ call' = [call EXCEPT ![c].pc = "rrp_lock", ![c].td = td,
                          ![c].contended = mutex[td] # Free]
  /\ UNCHANGED <<store_vars, fan_store_vars, seq_vars, mutex, fan_vars>>

\* RegisterRelativePath: take the top-dir's mutex.
RRPLock(c) ==
  /\ call[c].pc = "rrp_lock"
  /\ MutexAvailable(call[c].td)
  /\ mutex' = [mutex EXCEPT ![call[c].td] = c]
  /\ call' = [call EXCEPT ![c].pc = "rrp_gen"]
  /\ UNCHANGED <<store_vars, fan_store_vars, seq_vars, fan_vars>>

\* RegisterRelativePath: one turn of the loop up to the test of |found|; a
\* candidate that is present sends the loop round again. The loop has no
\* count of its turns: |attempts| records them, up to MaxAttempts.
RRPGenerate(c) ==
  /\ call[c].pc = "rrp_gen"
  /\ \E rel_path_id \in GUIDs :
       LET found == Get(relpath[call[c].td], rel_path_id) IN
       IF found = ""
         THEN call' = [call EXCEPT ![c].pc = "rrp_put", ![c].rp = rel_path_id]
         ELSE /\ call[c].attempts < MaxAttempts
              /\ call' = [call EXCEPT ![c].attempts = @ + 1]
  /\ UNCHANGED <<store_vars, fan_store_vars, seq_vars, mutex, fan_vars>>

\* RegisterRelativePath: reserve the candidate, return it, leave the scope of
\* the mutex.
RRPPut(c) ==
  /\ call[c].pc = "rrp_put"
  /\ relpath' = [relpath EXCEPT ![call[c].td] = Put(@, call[c].rp, Reserved)]
  /\ call' = [call EXCEPT ![c].pc = "done", ![c].ret = call[c].rp,
                          ![c].attempts = 0]
  /\ mutex' = [mutex EXCEPT ![call[c].td] = Free]
  /\ UNCHANGED <<email_user, relpath_lock, fptrs, data, next_user_id,
                 fan_store_vars, seq_vars, fan_vars>>

\* UploadPackage: the call arrives and reads HEAD of the path into |previous|.
UpGet(c, td, rp, p) ==
  /\ call[c].pc = "idle"
  /\ call' = [call EXCEPT ![c].pc = "up_head", ![c].td = td, ![c].rp = rp,
                          ![c].payload = p,
                          ![c].previous = Get(relpath[td], rp)]
  /\ UNCHANGED <<store_vars, fan_store_vars, seq_vars, mutex, fan_vars>>

\* UploadPackage: point HEAD of the path to the digest.
UpPutHead(c) ==
  /\ call[c].pc = "up_head"
  /\ relpath' = [relpath EXCEPT ![call[c].td] =
                   Put(@, call[c].rp, SHA1HashString(call[c].payload))]
  /\ call' = [call EXCEPT ![c].pc = "up_prev",
                          ![c].overwrote = Get(relpath[call[c].td], call[c].rp)]
  /\ UNCHANGED <<email_user, relpath_lock, fptrs, data, next_user_id,
                 fan_store_vars, seq_vars, mutex, fan_vars>>

\* UploadPackage: set the digest's PREV to |previous|.
UpPutPrev(c) ==
  /\ call[c].pc = "up_prev"
  /\ fptrs' = [fptrs EXCEPT ![call[c].td] =
                 Put(@, SHA1HashString(call[c].payload), call[c].previous)]
  /\ call' = [call EXCEPT ![c].pc = "up_data", ![c].previous = "",
                          ![c].overwrote = ""]
  /\ UNCHANGED <<email_user, relpath, relpath_lock, data, next_user_id,
                 fan_store_vars, seq_vars, mutex, fan_vars>>

\* UploadPackage: write the serialized package under the digest and return.
UpPutData(c) ==
  /\ call[c].pc = "up_data"
  /\ data' = [data EXCEPT ![call[c].td] =
                Put(@, SHA1HashString(call[c].payload),
                    Serialize(call[c].td, call[c].rp, call[c].payload))]
  /\ call' = [call EXCEPT ![c] = [IdleCall EXCEPT !.pc = "done"]]
  /\ UNCHANGED <<email_user, relpath, relpath_lock, fptrs, next_user_id,
                 fan_store_vars, seq_vars, mutex, fan_vars>>

\* RegisterUser: the call arrives, reads the email's EMAIL_USER record and
\* returns -1 when it is not empty.
RUGet(c, email) ==
  /\ call[c].pc = "idle"
  /\ LET value == Get(email_user, email) IN
       call' = [call EXCEPT ![c].email = email,
                            ![c].pc = IF AlreadyRegistered(value)
                                        THEN "done" ELSE "ru_id",
                            ![c].uid = IF AlreadyRegistered(value)
                                         THEN -1 ELSE 0]
  /\ UNCHANGED <<store_vars, fan_store_vars, seq_vars, mutex, fan_vars>>

\* RegisterUser: uid = GetNextUserID()
RUNextID(c) ==
  /\ call[c].pc = "ru_id"
  /\ call' = [call EXCEPT ![c].uid = GetNextUserID, ![c].pc = "ru_put"]
  /\ next_user_id' = next_user_id + 1
  /\ UNCHANGED <<email_user, relpath, relpath_lock, fptrs, data,
                 fan_store_vars, seq_vars, mutex, fan_vars>>

\* RegisterUser: Put the email's record and return the uid.
RUPut(c) ==
  /\ call[c].pc = "ru_put"
  /\ email_user' = Put(email_user, call[c].email, IntToString(call[c].uid))
  /\ call' = [call EXCEPT ![c].pc = "done"]
  /\ UNCHANGED <<relpath, relpath_lock, fptrs, data, next_user_id,
                 fan_store_vars, seq_vars, mutex, fan_vars>>

NextConc ==
  \/ \E c \in Calls, email \in Emails : RUGet(c, email)
  \/ \E c \in Calls : RUNextID(c)
  \/ \E c \in Calls : RUPut(c)
  \/ \E c \in Calls, td \in TopDirs : RRPCall(c, td)
  \/ \E c \in Calls : RRPLock(c)
  \/ \E c \in Calls : RRPGenerate(c)
  \/ \E c \in Calls : RRPPut(c)
  \/ \E c \in Calls, td \in TopDirs, rp \in GUIDs, p \in Payloads :
       UpGet(c, td, rp, p)
  \/ \E c \in Calls : UpPutHead(c)
  \/ \E c \in Calls : UpPutPrev(c)
  \/ \E c \in Calls : UpPutData(c)

SpecConc == Init /\ [][NextConc]_vars

\* ------------------------------------------------------ the fanout engine

handler_vars == <<store_vars, seq_vars, conc_vars>>

\* The pending queue holds tuples of distinct timestamps when the engine
\* starts.
InitFanout ==
  /\ StoreInit
  /\ queue \in {q \in SUBSET TupleUniverse :
                \A a, b \in q : a.ts = b.ts => a = b}
  /\ SeqInit
  /\ ConcInit
  /\ FanInit

\* The order of the tuple keys "ts_topdir_relpath_hash" in the queue: the
\* tuples of the model differ in the first two fields only.
KeyLess(a, b) == a.ts < b.ts \/ (a.ts = b.ts /\ a.td < b.td)

\* leveldb::Iterator::SeekToFirst and key(): the smallest key.
SeekToFirst(q) == CHOOSE t \in q : \A u \in q : u = t \/ KeyLess(t, u)

\* base::SplitString(tuple, '_', &update)
SplitString(t) == <<t.ts, t.td, t.rp, t.hash>>

\* The devices a tuple of top-dir td is fanned out to.
DevicesOf(td) ==
  IF td \notin DOMAIN Editors THEN {}
  ELSE UNION {{UserDevice[Editors[td][i]][j] :
                 j \in DOMAIN UserDevice[Editors[td][i]]} :
              i \in DOMAIN Editors[td]}

\* UpdateQueuer::Increment
Increment ==
  /\ ~aborted
  /\ Len(threads_) < MaxWorkers
  /\ LET w == Len(threads_) + 1 IN
       /\ threads_' = Append(threads_, w)
       /\ wk' = [wk EXCEPT ![w].pc = "wait"]
  /\ UNCHANGED <<handler_vars, fan_store_vars, interrupted, db_mutex, aborted,
                 claims, enqueued, appended, ndec>>

\* UpdateQueuer::Decrement, called no more often than Increment was:
\* threads_.back() is interrupted and stays in threads_.
Decrement ==
  /\ ~aborted
  /\ ndec < Len(threads_)
  /\ LET thread == threads_[Len(threads_)] IN
       interrupted' = [interrupted EXCEPT ![thread] = TRUE]
  /\ ndec' = ndec + 1
  /\ UNCHANGED <<handler_vars, fan_store_vars, threads_, wk, db_mutex, aborted,
                 claims, enqueued, appended>>

DbMutexAvailable_Always == TRUE

\* std::unique_lock on Sync::db_mutex: the caller proceeds once it is free.
DbMutexAvailable == db_mutex = Free

\* DBEmpty, evaluated while db_mutex is held.
DBEmpty == queue = {}

\* Run: cv.wait(lock, pred) tests the predicate; the worker goes on when the
\* queue is not empty and blocks in the condition variable otherwise.
RunWait(w) ==
  /\ ~aborted
  /\ wk[w].pc = "wait"
  /\ DbMutexAvailable
  /\ wk' = [wk EXCEPT ![w].pc = IF ~DBEmpty THEN "db_lock" ELSE "blocked"]
  /\ UNCHANGED <<handler_vars, fan_store_vars, threads_, interrupted, db_mutex,
                 aborted, claims, enqueued, appended, ndec>>

\* Run: the blocked worker wakes up (a wake-up may be spurious) and tests the
\* predicate again. Nothing obliges the wait to return: no code notifies the
\* condition variable, and cv_mutex is handed to wait unlocked (defer_lock),
\* which leaves the outcome of the wait open.
RunWake(w) ==
  /\ ~aborted
  /\ wk[w].pc = "blocked"
  /\ wk' = [wk EXCEPT ![w].pc = "wait"]
  /\ UNCHANGED <<handler_vars, fan_store_vars, threads_, interrupted, db_mutex,
                 aborted, claims, enqueued, appended, ndec>>

\* Run: db_lock.lock()
RunDbLock(w) ==
  /\ ~aborted
  /\ wk[w].pc = "db_lock"
  /\ DbMutexAvailable
  /\ db_mutex' = w
  /\ wk' = [wk EXCEPT ![w].pc = "seek"]
  /\ UNCHANGED <<handler_vars, fan_store_vars, threads_, interrupted, aborted,
                 claims, enqueued, appended, ndec>>

\* Run: SeekToFirst, CHECK(it->Valid()), read the key into |tuple|.
RunSeek(w) ==
  /\ ~aborted
  /\ wk[w].pc = "seek"
  /\ IF queue = {}
       THEN /\ aborted' = TRUE
            /\ wk' = [wk EXCEPT ![w].pc = "check_valid"]
            /\ UNCHANGED claims
       ELSE LET tuple == SeekToFirst(queue) IN
            /\ wk' = [wk EXCEPT ![w].pc = "log", ![w].tuple = tuple]
            /\ claims' = [claims EXCEPT ![tuple] = @ + 1]
            /\ UNCHANGED aborted
  /\ UNCHANGED <<handler_vars, fan_store_vars, threads_, interrupted, db_mutex,
                 enqueued, appended, ndec>>

\* Run: Put the tuple into UPDATE_ACTION_LOG, Delete its key from the queue,
\* db_lock.unlock().
RunLogDelete(w) ==
  /\ ~aborted
  /\ wk[w].pc = "log"
  /\ update_log' = update_log \cup {wk[w].tuple}
  /\ queue' = queue \ {wk[w].tuple}
  /\ db_mutex' = Free
  /\ wk' = [wk EXCEPT ![w].pc = "editors"]
  /\ UNCHANGED <<handler_vars, device_sync, threads_, interrupted, aborted,
                 claims, enqueued, appended, ndec>>

\* The position after the devices of the current user are done.
AfterUser_FirstOnly(users) == "ipoint"

AfterUser(users) == IF Len(users) > 1 THEN "devices" ELSE "ipoint"

\* Run: split the tuple, CHECK the Get of EDITORS of its top-dir, split the
\* editors.
RunEditors(w) ==
  /\ ~aborted
  /\ wk[w].pc = "editors"
  /\ LET update == SplitString(wk[w].tuple)
         top_dir == update[2]
     IN IF top_dir \notin DOMAIN Editors
          THEN /\ aborted' = TRUE
               /\ wk' = [wk EXCEPT ![w].pc = "check_editors"]
          ELSE LET users == Editors[top_dir] IN
               /\ wk' = [wk EXCEPT ![w].users = users,
                           ![w].pc = IF users = <<>> THEN "ipoint"
                                                     ELSE "devices"]
               /\ UNCHANGED aborted
  /\ UNCHANGED <<handler_vars, fan_store_vars, threads_, interrupted, db_mutex,
                 claims, enqueued, appended, ndec>>

\* Run: for the next user, CHECK the Get of USER_DEVICE and split the
\* devices; for the first device, CHECK the Get of its DEVICE_SYNC record.
RunDevices(w) ==
  /\ ~aborted
  /\ wk[w].pc = "devices"
  /\ LET user == Head(wk[w].users) IN
       IF user \notin DOMAIN UserDevice
         THEN /\ aborted' = TRUE
              /\ wk' = [wk EXCEPT ![w].pc = "check_devices"]
         ELSE LET devices == UserDevice[user] IN
              /\ IF devices = <<>>
                   THEN wk' = [wk EXCEPT ![w].users = Tail(@),
                                  ![w].pc = AfterUser(wk[w].users)]
                   ELSE wk' = [wk EXCEPT ![w].devices = devices,
                                  ![w].updates = device_sync[Head(devices)],
                                  ![w].pc = "mail_put"]
              /\ UNCHANGED aborted
  /\ UNCHANGED <<handler_vars, fan_store_vars, threads_, interrupted, db_mutex,
                 claims, enqueued, appended, ndec>>

\* Run: for a further device of the user, CHECK the Get of its DEVICE_SYNC
\* record.
RunMailGet(w) ==
  /\ ~aborted
  /\ wk[w].pc = "mail_get"
  /\ wk' = [wk EXCEPT ![w].updates = device_sync[Head(wk[w].devices)],
                      ![w].pc = "mail_put"]
  /\ UNCHANGED <<handler_vars, fan_store_vars, threads_, interrupted, db_mutex,
                 aborted, claims, enqueued, appended, ndec>>

MailboxAppend_Overwrite(updates, tuple) == <<tuple>>

\* Run: updates_to_write + tuple, where updates_to_write is empty for an empty
\* mailbox and the mailbox followed by a comma otherwise.
MailboxAppend(updates, tuple) == Append(updates, tuple)

\* Run: CHECK the Put of the mailbox; go on to the next device, the next user
\* or the end of the fanout.
RunMailPut(w) ==
  /\ ~aborted
  /\ wk[w].pc = "mail_put"
  /\ device_sync' = [device_sync EXCEPT ![Head(wk[w].devices)] =
                       MailboxAppend(wk[w].updates, wk[w].tuple)]
  /\ IF Len(wk[w].devices) > 1
       THEN wk' = [wk EXCEPT ![w].devices = Tail(@), ![w].updates = <<>>,
                             ![w].pc = "mail_get"]
       ELSE wk' = [wk EXCEPT ![w].devices = <<>>, ![w].updates = <<>>,
                             ![w].users = Tail(@),
                             ![w].pc = AfterUser(wk[w].users)]
  /\ appended' = appended \cup {<<wk[w].tuple, Head(wk[w].devices)>>}
  /\ UNCHANGED <<handler_vars, queue, update_log, threads_, interrupted,
                 db_mutex, aborted, claims, enqueued, ndec>>

\* Run: boost::this_thread::interruption_point(); an interrupted thread leaves
\* the loop, any other sleeps and starts the loop again.
RunInterruptionPoint(w) ==
  /\ ~aborted
  /\ wk[w].pc = "ipoint"
  /\ wk' = [wk EXCEPT ![w] = [OffWorker EXCEPT
                                !.pc = IF interrupted[w] THEN "done"
                                                         ELSE "wait"]]
  /\ UNCHANGED <<handler_vars, fan_store_vars, threads_, interrupted, db_mutex,
                 aborted, claims, enqueued, appended, ndec>>

NextFanout ==
  \/ Increment
  \/ Decrement
  \/ \E w \in Workers : RunWait(w)
  \/ \E w \in Workers : RunWake(w)
  \/ \E w \in Workers : RunDbLock(w)
  \/ \E w \in Workers : RunSeek(w)
  \/ \E w \in Workers : RunLogDelete(w)
  \/ \E w \in Workers : RunEditors(w)
  \/ \E w \in Workers : RunDevices(w)
  \/ \E w \in Workers : RunMailGet(w)
  \/ \E w \in Workers : RunMailPut(w)
  \/ \E w \in Workers : RunInterruptionPoint(w)

SpecFanout == InitFanout /\ [][NextFanout]_vars

\* ------------------------------------------------------------------ claims

\* The step is a return of the handler |op|.
Returns(op) == nops' = nops + 1 /\ last'.op = op

\* C1: the first RegisterUser(e) returns a UserID greater than every UserID
\* issued before it; every later RegisterUser(e) returns the failure value -1,
\* leaves the UserID counter where it was and leaves EMAIL_USER as it was.
C1_RegisterUserOnce ==
  [][Returns("RegisterUser") =>
       IF last'.key \notin called
         THEN /\ \A u \in issued : last'.uid > u
              /\ email_user'[last'.key] = IntToString(last'.uid)
         ELSE /\ last'.uid = -1
              /\ next_user_id' = next_user_id
              /\ issued' = issued
              /\ email_user' = email_user]_vars

\* Two users are registered and a repeated registration has just failed.
C1_Witness ==
  /\ last.op = "RegisterUser"
  /\ last.uid = -1
  /\ Cardinality(issued) = 2
  /\ email_user[last.key] \in {IntToString(u) : u \in issued}

\* C3: after two Uploads in a row to the same (top_dir, rel_path) with
\* digests d1 then d2, PREV[d2] is d1, HEAD of the path is d2, and one PREV
\* step from HEAD is d1.
C3_SecondUploadChains ==
  [][(Returns("Upload") /\ last.op = "Upload" /\ streak' = 2) =>
       LET td == last'.td
           rp == last'.key
           d1 == last.digest
           d2 == last'.digest
       IN /\ GetOrEmpty(fptrs'[td], d2) = d1
          /\ Get(relpath'[td], rp) = d2
          /\ GetOrEmpty(fptrs'[td], Get(relpath'[td], rp)) = d1]_vars

\* Two Uploads in a row to one path with different payloads have returned.
C3_Witness ==
  /\ last.op = "Upload"
  /\ streak = 2
  /\ relpath[last.td][last.key] = last.digest
  /\ fptrs[last.td][last.digest] \in Digests \ {last.digest}

\* C6: between two ReleaseLock calls of a path at most one AcquireLock of the
\* path returns acquired=true, and a path whose AcquireLock returned
\* acquired=true has its lock-table entry marked held.
C6_AtMostOneAcquire ==
  \A td \in TopDirs, rp \in GUIDs :
    /\ granted[td][rp] <= 1
    /\ granted[td][rp] = 1 => Get(relpath_lock[td], rp) # ""

\* C7: a ReleaseLock that follows a ReleaseLock of the same path returns
\* without error and leaves the store exactly as the first left it.
C7_ReleaseIdempotent ==
  [][(Returns("ReleaseLock") /\ last.op = "ReleaseLock" /\ streak' = 2) =>
       /\ last'.ret = "ok"
       /\ store_vars' = store_vars
       /\ fan_store_vars' = fan_store_vars]_vars

\* ReleaseLock has been called twice in a row on one path.
C7_Witness ==
  /\ last.op = "ReleaseLock"
  /\ streak = 2
  /\ last.ret = "ok"

\* C10: every Upload that returned has left its update tuple in the pending
\* queue, from where it can only move to the update log.
C10_UploadEnqueues ==
  \A u \in uploaded :
    \E t \in queue \cup update_log :
      t.td = u[1] /\ t.rp = u[2] /\ t.hash = u[3]

\* C2: the GUIDs returned by RegisterRelativePath calls on one top-dir are
\* pairwise distinct, and no two calls on one top-dir are between the
\* candidate test and the reservation at the same time.
C2_DistinctGUIDs ==
  \A c1, c2 \in Calls :
    (c1 # c2 /\ call[c1].td = call[c2].td) =>
      /\ (call[c1].ret # "" /\ call[c2].ret # "") => call[c1].ret # call[c2].ret
      /\ ~(call[c1].pc \in {"rrp_gen", "rrp_put"} /\
           call[c2].pc \in {"rrp_gen", "rrp_put"})

\* Two calls on one top-dir have returned, one of which arrived while the
\* other held the mutex.
C2_Witness ==
  \E c1, c2 \in Calls :
    /\ c1 # c2
    /\ call[c1].ret # "" /\ call[c2].ret # ""
    /\ call[c1].td = call[c2].td
    /\ call[c2].contended

\* C9: the PREV an Upload records for its digest is the HEAD value that the
\* Upload replaced.
C9_PrevIsReplacedHead ==
  [][\A c \in Calls :
       (call[c].pc = "up_prev" /\ call'[c].pc = "up_data") =>
         fptrs'[call[c].td][SHA1HashString(call[c].payload)]
           = call[c].overwrote]_vars

\* Number of entries of mailbox m equal to tuple t.
Count(m, t) == Cardinality({i \in DOMAIN m : m[i] = t})

\* The tuples of the set S in key order.
RECURSIVE InKeyOrder(_)
InKeyOrder(S) ==
  IF S = {} THEN <<>>
  ELSE LET t == SeekToFirst(S) IN <<t>> \o InKeyOrder(S \ {t})

\* The tuples of the sequence s that are fanned out to device d.
ForDevice(s, d) == SelectSeq(s, LAMBDA t : d \in DevicesOf(t.td))

\* C4: with a single worker, a tuple is claimed with every mailbox holding
\* the tuples processed before it, and when its fanout is finished the mailbox
\* of every device of every editor of its top-dir is that content followed by
\* the tuple, every other mailbox is as it was, the tuple is out of the
\* pending queue and it is in the update log.
C4_SingleWorkerFanout ==
  \A w \in Workers :
    Len(threads_) = 1 =>
      LET t == wk[w].tuple
          earlier == InKeyOrder((enqueued \ queue) \ {t})
      IN
      /\ wk[w].pc = "log" =>
           \A d \in Devices : device_sync[d] = ForDevice(earlier, d)
      /\ wk[w].pc = "ipoint" =>
           /\ \A d \in Devices :
                device_sync[d] = IF d \in DevicesOf(t.td)
                                   THEN Append(ForDevice(earlier, d), t)
                                   ELSE ForDevice(earlier, d)
           /\ \A d \in DevicesOf(t.td) : Count(device_sync[d], t) = 1
           /\ t \notin queue
           /\ t \in update_log

\* The only worker has finished the fanout of a tuple of top-dir 1 to
\* mailboxes that held an earlier tuple.
C4_Witness ==
  \E w \in Workers :
    /\ Len(threads_) = 1
    /\ wk[w].pc = "ipoint"
    /\ wk[w].tuple.td = 1
    /\ Len(device_sync[1]) = 2
    /\ Len(device_sync[3]) = 2

\* No worker is between the claim of a tuple and the end of its fanout.
Quiescent ==
  \A w \in Workers : wk[w].pc \in {"off", "wait", "blocked", "db_lock", "done"}

\* C5: once the pending queue is drained and no CHECK has failed, every
\* mailbox holds each tuple enqueued for a top-dir its owner edits exactly
\* once, and no other tuple.
C5_DeliveredExactlyOnce ==
  (queue = {} /\ ~aborted /\ Quiescent) =>
    \A t \in enqueued, d \in Devices :
      Count(device_sync[d], t) = IF d \in DevicesOf(t.td) THEN 1 ELSE 0

\* C8: no tuple is selected by two workers, and no two workers are between
\* db_lock.lock() and db_lock.unlock() together.
C8_ClaimedOnce ==
  /\ \A t \in TupleUniverse : claims[t] <= 1
  /\ \A w1, w2 \in Workers :
       (w1 # w2 /\ wk[w1].tuple # NoTuple) => wk[w1].tuple # wk[w2].tuple
  /\ Cardinality({w \in Workers : wk[w].pc \in {"seek", "log"}}) <= 1

\* One worker is about to log and delete the tuple it claimed while another
\* waits for db_mutex.
C8_Witness ==
  \E w1, w2 \in Workers :
    /\ wk[w1].pc = "log"
    /\ claims[wk[w1].tuple] = 1
    /\ wk[w2].pc = "db_lock"

\* C11: no record of the pending queue stops a worker: a claimed tuple whose
\* top-dir has no EDITORS record, or whose editor has no device list, does not
\* end the worker at the CHECK of that record.
C11_BadRecordDoesNotStop ==
  \A w \in Workers : wk[w].pc \notin {"check_editors", "check_devices"}

\* What a worker at position w has done for the tuple it claimed.
FullyProcessed(w) ==
  LET t == wk[w].tuple IN
    /\ t # NoTuple
    /\ t \in update_log
    /\ t \notin queue
    /\ wk[w].users = <<>> /\ wk[w].devices = <<>>
    /\ \A d \in DevicesOf(t.td) : <<t, d>> \in appended

\* C12: a worker observes its cancellation only at the interruption point that
\* follows the fanout: in the step that stops it, the tuple it claimed is in
\* the update log, off the pending queue, and the worker has made the mailbox
\* Put of every device of every editor of the tuple's top-dir.
C12_StopsOnlyAfterFanout ==
  [][\A w \in Workers :
       (wk[w].pc # "done" /\ wk'[w].pc = "done") =>
         (wk[w].pc = "ipoint" /\ interrupted[w] /\ FullyProcessed(w))]_vars

\* C12 happens: a cancelled worker has stopped, and a tuple with two target
\* devices was claimed, logged, deleted and put in both mailboxes.
C12_Witness ==
  \E w \in Workers :
    /\ wk[w].pc = "done"
    /\ \E t \in enqueued :
         /\ claims[t] = 1 /\ t \in update_log /\ t \notin queue
         /\ Cardinality(DevicesOf(t.td)) > 1
         /\ \A d \in DevicesOf(t.td) : <<t, d>> \in appended

\* C13: the allocation loop of RegisterRelativePath is bounded: a call that
\* has drawn MaxAttempts candidates that were all present has left the loop
\* (with a failure) and no longer holds the top-dir's mutex.
C13_AllocationBounded ==
  \A c \in Calls :
    call[c].attempts >= MaxAttempts =>
      (call[c].pc # "rrp_gen" /\ mutex[call[c].td] # c)

\* C14: an Upload whose payload's digest already has a blob in the top-dir
\* (an earlier Upload of the same bytes, to whatever rel_path) leaves the bytes
\* stored under that digest as they were.
C14_SameBytesSameBlob ==
  [][Returns("Upload") =>
       LET td == last'.td
           d == last'.digest
       IN data[td][d] # NoKey => data'[td][d] = data[td][d]]_vars

\* C16: an Upload to a path that no Upload has named before records the empty
\* string as PREV of its digest, also when HEAD of the path holds the
\* reservation of RegisterRelativePath.
C16_FirstUploadHasNoPrev ==
  [][Returns("Upload") =>
       LET td == last'.td
           rp == last'.key
           d == last'.digest
       IN (\A e \in Digests : <<td, rp, e>> \notin uploaded) =>
            fptrs'[td][d] = ""]_vars

\* The digests met when following PREV from d, as long as none is met twice;
\* FALSE when one is.
RECURSIVE NoCycleFrom(_, _, _)
NoCycleFrom(td, d, seen) ==
  IF d \notin Digests THEN TRUE
  ELSE IF d \in seen THEN FALSE
  ELSE NoCycleFrom(td, GetOrEmpty(fptrs[td], d), seen \cup {d})

\* C20: following PREV from the HEAD of any path meets no digest twice.
C20_PrevAcyclic ==
  \A td \in TopDirs, rp \in GUIDs :
    NoCycleFrom(td, Get(relpath[td], rp), {})

\* C15: of the RegisterUser calls made with one email, whatever their
\* interleaving, at most one returns a UserID, and the email's record is the
\* UserID that call returned.
C15_OneSuccessPerEmail ==
  \A c \in Calls :
    (call[c].pc = "done" /\ call[c].uid > 0) =>
      /\ email_user[call[c].email] = IntToString(call[c].uid)
      /\ \A o \in Calls \ {c} :
           (call[o].pc = "done" /\ call[o].email = call[c].email) =>
             call[o].uid = -1

\* C17: in every state, also between the steps of an Upload, a HEAD that
\* holds a digest has the digest's PREV pointer and blob stored.
C17_HeadImpliesStored ==
  \A td \in TopDirs, rp \in GUIDs :
    LET d == Get(relpath[td], rp) IN
      d \in Digests => (fptrs[td][d] # NoKey /\ data[td][d] # NoKey)

\* C18: each Decrement cancels a worker no earlier Decrement cancelled: the
\* number of workers asked to stop is the number of Decrement calls.
C18_EachDecrementCancelsAnother ==
  Cardinality({w \in Workers : interrupted[w]}) = ndec

\* C19: a worker that passed the wait for a non-empty queue and holds the
\* queue lock finds a first entry: the pending queue is not empty.
C19_FirstEntryValid ==
  \A w \in Workers : (wk[w].pc = "seek" /\ db_mutex = w) => queue # {}

====
